---------------------------- MODULE Spec2Model ----------------------------
(***************************************************************************)
(* Model of ZirconSharp/zgen.py: the generator that scans syscalls.abigen  *)
(* line by line and prints a DllImport binding and a wrapper per syscall.  *)
(*                                                                         *)
(* A Python str is modelled as a sequence of one-character strings, so     *)
(* that strip, split, find, startswith and slicing are computed the way    *)
(* the script computes them.  The output stream is the sequence of the     *)
(* arguments of the print calls, in order.                                 *)
(***************************************************************************)
EXTENDS Integers, Sequences, FiniteSets, TLC

(***************************************************************************)
(* Bind(e, F) is F(e) with e evaluated once: F's parameter stands for the  *)
(* value of e, not for the expression.                                     *)
(***************************************************************************)
Bind(e, F(_)) == CHOOSE y \in {F(x) : x \in {e}} : TRUE

(***************************************************************************)
(* Python str helpers                                                      *)
(***************************************************************************)
Whitespace == {" ", "\t", "\n", "\r"}

Min(S) == CHOOSE a \in S : \A m \in S : a <= m
Max(S) == CHOOSE b \in S : \A m \in S : b >= m

\* s.startswith(p)
StartsWith(s0, p) ==
    Bind(s0, LAMBDA s : Len(s) >= Len(p) /\ SubSeq(s, 1, Len(p)) = p)

\* s.find(p): 0-based index of the first occurrence of p in s, or -1
Find(s0, p) ==
    Bind(s0, LAMBDA s :
      Bind({k \in 0..(Len(s) - Len(p)) : SubSeq(s, k + 1, k + Len(p)) = p},
           LAMBDA hits : IF hits = {} THEN -1 ELSE Min(hits)))

\* s.strip()
Strip(s0) ==
    Bind(s0, LAMBDA s :
      Bind({k \in 1..Len(s) : s[k] \notin Whitespace},
           LAMBDA keep : IF keep = {} THEN <<>> ELSE SubSeq(s, Min(keep), Max(keep))))

\* s[a:-b] for a >= 0, b > 0
Slice(s0, a, b) ==
    Bind(s0, LAMBDA s :
      IF a + 1 > Len(s) - b THEN <<>> ELSE SubSeq(s, a + 1, Len(s) - b))

\* s.split(c) for a one-character separator, and re.split("\s", s) when seps
\* is the whitespace class: every separator character cuts, empty parts kept
RECURSIVE SplitOn(_, _)
SplitOn(s0, seps) ==
    Bind(s0, LAMBDA s :
      Bind({k \in 1..Len(s) : s[k] \in seps}, LAMBDA cuts :
        IF cuts = {} THEN <<s>>
        ELSE Bind(Min(cuts), LAMBDA j :
               <<SubSeq(s, 1, j - 1)>> \o SplitOn(SubSeq(s, j + 1, Len(s)), seps))))

(***************************************************************************)
(* The type mapping table: source type -> <<native type, public type>>     *)
(***************************************************************************)
maps ==
    (<<"z","x","_","s","t","a","t","u","s","_","t">> :> <<<<"Z","x","S","t","a","t","u","s">>, <<"Z","x","S","t","a","t","u","s">>>>) @@
    (<<"u","i","n","t","3","2","_","t">> :> <<<<"u","i","n","t">>, <<"u","i","n","t">>>>) @@
    (<<"z","x","_","t","i","m","e","_","t">> :> <<<<"Z","x","T","i","m","e">>, <<"Z","x","T","i","m","e">>>>) @@
    (<<"z","x","_","c","l","o","c","k","_","t">> :> <<<<"Z","x","C","l","o","c","k">>, <<"Z","x","C","l","o","c","k">>>>) @@
    (<<"z","x","_","t","i","c","k","s","_","t">> :> <<<<"Z","x","T","i","c","k","s">>, <<"Z","x","T","i","c","k","s">>>>) @@
    (<<"z","x","_","h","a","n","d","l","e","_","t">> :> <<<<"u","i","n","t">>, <<"H","A","N","D","L","E">>>>) @@
    (<<"u","i","n","t","6","4","_","t">> :> <<<<"u","l","o","n","g">>, <<"u","l","o","n","g">>>>) @@
    (<<"z","x","_","s","i","g","n","a","l","s","_","t">> :> <<<<"Z","x","O","b","j","e","c","t","S","i","g","n","a","l">>, <<"Z","x","O","b","j","e","c","t","S","i","g","n","a","l">>>>) @@
    (<<"z","x","_","d","u","r","a","t","i","o","n","_","t">> :> <<<<"Z","x","D","u","r","a","t","i","o","n">>, <<"Z","x","D","u","r","a","t","i","o","n">>>>) @@
    (<<"i","n","t","6","4","_","t">> :> <<<<"l","o","n","g">>, <<"l","o","n","g">>>>) @@
    (<<"s","i","z","e","_","t">> :> <<<<"I","n","t","P","t","r">>, <<"I","n","t","P","t","r">>>>) @@
    (<<"z","x","_","v","a","d","d","r","_","t">> :> <<<<"I","n","t","P","t","r">>, <<"I","n","t","P","t","r">>>>) @@
    (<<"u","i","n","t","8","_","t">> :> <<<<"b","y","t","e">>, <<"b","y","t","e">>>>) @@
    (<<"i","n","t","3","2","_","t">> :> <<<<"i","n","t">>, <<"i","n","t">>>>) @@
    (<<"b","o","o","l">> :> <<<<"b","y","t","e">>, <<"b","o","o","l">>>>) @@
    (<<"z","x","_","v","m","_","o","p","t","i","o","n","_","t">> :> <<<<"Z","x","V","m","O","p","t","i","o","n">>, <<"Z","x","V","m","O","p","t","i","o","n">>>>) @@
    (<<"z","x","_","r","i","g","h","t","s","_","t">> :> <<<<"Z","x","R","i","g","h","t","s">>, <<"Z","x","R","i","g","h","t","s">>>>) @@
    (<<"u","i","n","t","1","6","_","t">> :> <<<<"u","s","h","o","r","t">>, <<"u","s","h","o","r","t">>>>) @@
    (<<"z","x","_","p","a","d","d","r","_","t">> :> <<<<"I","n","t","P","t","r">>, <<"I","n","t","P","t","r">>>>) @@
    (<<"u","i","n","t","p","t","r","_","t">> :> <<<<"U","I","n","t","P","t","r">>, <<"U","I","n","t","P","t","r">>>>)

(***************************************************************************)
(* clean(arg)                                                              *)
(***************************************************************************)
\* pname,typeAndAttr = arg.split(':') raises ValueError unless the stripped
\* token has exactly one colon
cleanRaises(arg) == Len(SplitOn(Strip(arg), {":"})) # 2

\* clean without the renaming of "out"
clean_noRename(arg) ==
    Bind(SplitOn(Strip(arg), {":"}), LAMBDA parts :
      Bind(Strip(SplitOn(Strip(parts[2]), {" "})[1]), LAMBDA typename :
        IF typename \notin DOMAIN maps
        THEN <<FALSE, FALSE, FALSE>>
        ELSE <<parts[1], maps[typename]>>))

\* the (False, False, False) marker, or (pname, maps[typename])
clean(arg) ==
    Bind(SplitOn(Strip(arg), {":"}), LAMBDA parts :
      Bind(Strip(SplitOn(Strip(parts[2]), {" "})[1]), LAMBDA typename :
        IF typename \notin DOMAIN maps
        THEN <<FALSE, FALSE, FALSE>>
        ELSE <<IF parts[1] = <<"o","u","t">> THEN <<"r","e","s","u","l","t">> ELSE parts[1], maps[typename]>>))

(***************************************************************************)
(* The body of the scan loop for an accepted header                        *)
(***************************************************************************)
\* AppendParam with call assigned and not appended to
AppendParam_callAssigned(acc, mark, cr) ==
    LET p == mark \o cr[2][1] \o <<" ">> \o cr[1]
        c == mark \o cr[2][2] \o <<" ">> \o cr[1]
    IN  [acc EXCEPT
            !.pargs = IF Len(acc.pargs) = 0 THEN p ELSE acc.pargs \o <<","," ">> \o p,
            !.cargs = IF Len(acc.pargs) = 0 THEN c ELSE acc.cargs \o <<","," ">> \o c,
            !.call  = mark \o cr[1]]

\* the three lists after one more parameter; mark is "" or "out "
AppendParam(acc, mark, cr) ==
    LET p == mark \o cr[2][1] \o <<" ">> \o cr[1]
        c == mark \o cr[2][2] \o <<" ">> \o cr[1]
    IN  [acc EXCEPT
            !.pargs = IF Len(acc.pargs) = 0 THEN p ELSE acc.pargs \o <<","," ">> \o p,
            !.cargs = IF Len(acc.pargs) = 0 THEN c ELSE acc.cargs \o <<","," ">> \o c,
            !.call  = IF Len(acc.call) = 0 THEN mark \o cr[1]
                      ELSE acc.call \o <<","," ">> \o mark \o cr[1]]

ArgDiag(sc, varg) ==
    <<"/","/"," ","S","k","i","p","p","i","n","g"," ">> \o sc \o <<" ","d","u","e"," ","t","o"," ","u","n","h","a","n","d","l","e","d"," ","t","y","p","e",":"," ">> \o varg \o <<"\n","\n">>

RetDiag(sc, fret) ==
    <<"/","/"," ","S","k","i","p","p","i","n","g"," ">> \o sc \o <<" ","d","u","e"," ","t","o"," ","u","n","h","a","n","d","l","e","d"," ","r","e","t","u","r","n"," ">> \o fret \o <<"\n","\n">>

ARetDiag(sc, vr) ==
    <<"/","/"," ","S","k","i","p","p","i","n","g"," ">> \o sc \o <<" ","d","u","e"," ","t","o"," ","a","d","d","i","t","i","o","n","a","l"," ","r","e","t","u","r","n",":"," ">> \o vr \o <<"\n","\n">>

\* the argument loop with break for continue after the diagnostic
RECURSIVE ArgLoop_break(_, _, _, _)
ArgLoop_break(vargs, k, sc, acc0) ==
    Bind(acc0, LAMBDA acc :
      IF k > Len(vargs) THEN acc
      ELSE IF vargs[k] = <<>> THEN ArgLoop_break(vargs, k + 1, sc, acc)
      ELSE IF cleanRaises(vargs[k]) THEN [acc EXCEPT !.raised = TRUE]
      ELSE Bind(clean(vargs[k]), LAMBDA cleanresult :
             IF Len(cleanresult) = 3
             THEN [acc EXCEPT !.out = Append(@, ArgDiag(sc, vargs[k]))]
             ELSE ArgLoop_break(vargs, k + 1, sc, AppendParam(acc, <<>>, cleanresult))))

\* for varg in vargs: the lists and the output after the loop, or raised
RECURSIVE ArgLoop(_, _, _, _)
ArgLoop(vargs, k, sc, acc0) ==
    Bind(acc0, LAMBDA acc :
      IF k > Len(vargs) THEN acc
      ELSE IF vargs[k] = <<>> THEN ArgLoop(vargs, k + 1, sc, acc)
      ELSE IF cleanRaises(vargs[k]) THEN [acc EXCEPT !.raised = TRUE]
      ELSE Bind(clean(vargs[k]), LAMBDA cleanresult :
             IF Len(cleanresult) = 3
             THEN ArgLoop(vargs, k + 1, sc,
                          [acc EXCEPT !.out = Append(@, ArgDiag(sc, vargs[k]))])
             ELSE ArgLoop(vargs, k + 1, sc, AppendParam(acc, <<>>, cleanresult))))

\* for vr in aret
RECURSIVE ARetLoop(_, _, _, _)
ARetLoop(aret, k, sc, acc0) ==
    Bind(acc0, LAMBDA acc :
      IF k > Len(aret) THEN acc
      ELSE IF cleanRaises(aret[k]) THEN [acc EXCEPT !.raised = TRUE]
      ELSE Bind(clean(aret[k]), LAMBDA cleanresult :
             IF Len(cleanresult) = 3
             THEN ARetLoop(aret, k + 1, sc,
                           [acc EXCEPT !.out = Append(@, ARetDiag(sc, aret[k]))])
             ELSE ARetLoop(aret, k + 1, sc, AppendParam(acc, <<"o","u","t"," ">>, cleanresult))))

\* the eight print calls of the emitter
Emitted(sc, presult_, cresult_, pargs_, cargs_, call_) ==
    << <<"[","D","l","l","I","m","p","o","r","t"," ","(","L","i","b","r","a","r","y",")","]">>,
       <<"e","x","t","e","r","n"," ","s","t","a","t","i","c"," ">> \o presult_ \o <<" ">> \o sc \o <<" ","(">> \o pargs_ \o <<")",";">>,
       <<>>,
       <<"p","u","b","l","i","c"," ","v","o","i","d"," ">> \o cresult_ \o <<" ">> \o sc \o <<" ","(">> \o cargs_ \o <<")">>,
       <<"{">>,
       <<"\t">> \o sc \o <<"(">> \o call_ \o <<")">>,
       <<"}">>,
       <<>> >>

\* v, syscall, *rest = re.split("\s", lines[i])
HeaderName(line) == SplitOn(line, Whitespace)[2]
HeaderRaises(line) == Len(SplitOn(line, Whitespace)) < 2

ArgsOf(line) == Slice(Strip(line), 1, 1)
RetOf(line)  == Slice(Strip(line), 9, 2)

\* the last statement of the loop body left out
Advance_stay(j) == j

\* the cursor after an iteration that ends at its last statement, i = i + 1
Advance(j) == j + 1

\* the unhandled-return branch without its i = i +1
AbandonAdvance_missing(j) == j

\* the cursor after the unhandled-return branch, i = i +1
AbandonAdvance(j) == j + 1

\* the part of the iteration after ret is read (sc, args_, ret_ are values)
Assemble(h, o, old, sc, args_, ret_) ==
    Bind(SplitOn(ret_, {","}), LAMBDA rets :
    Bind(ArgLoop(SplitOn(args_, {","}), 1, sc,
                 [pargs |-> <<>>, cargs |-> <<>>, call |-> <<>>, out |-> o,
                  raised |-> FALSE]), LAMBDA a1 :
    Bind([old EXCEPT !.syscall = sc, !.args = args_, !.ret = ret_,
                     !.presult = <<>>, !.cresult = <<>>, !.i = h + 2,
                     !.pargs = a1.pargs, !.cargs = a1.cargs,
                     !.call = a1.call, !.out = a1.out], LAMBDA base :
      IF a1.raised THEN [base EXCEPT !.end = "raise"]
      ELSE IF rets[1] \notin DOMAIN maps
      THEN [base EXCEPT !.end = "abandon", !.i = AbandonAdvance(h + 2),
                        !.out = Append(a1.out, RetDiag(sc, rets[1]))]
      ELSE
      Bind(ARetLoop(SubSeq(rets, 2, Len(rets)), 1, sc, a1), LAMBDA a2 :
        IF a2.raised
        THEN [base EXCEPT !.end = "raise", !.pargs = a2.pargs, !.cargs = a2.cargs,
                          !.call = a2.call, !.out = a2.out]
        ELSE [base EXCEPT !.end = "emit", !.i = Advance(h + 2),
                          !.pargs = a2.pargs, !.cargs = a2.cargs, !.call = a2.call,
                          !.presult = maps[rets[1]][1], !.cresult = maps[rets[1]][2],
                          !.out = a2.out \o Emitted(sc, maps[rets[1]][1], maps[rets[1]][2],
                                                    a2.pargs, a2.cargs, a2.call)]))))

\* One iteration on an accepted header at 0-based cursor h, for input ls and
\* output o so far.  end is "emit", "abandon" (unhandled primary return) or
\* "raise" (ValueError or IndexError); the other fields are the script's
\* variables when the iteration ends.
Body(ls, h, o, old) ==
    IF HeaderRaises(ls[h + 1]) THEN [old EXCEPT !.end = "raise"]
    ELSE Bind(HeaderName(ls[h + 1]), LAMBDA sc :
      IF h + 1 >= Len(ls)
      THEN [old EXCEPT !.end = "raise", !.i = h + 1, !.syscall = sc]
      ELSE Bind(ArgsOf(ls[h + 2]), LAMBDA args_ :
        IF h + 2 >= Len(ls)
        THEN [old EXCEPT !.end = "raise", !.i = h + 2, !.syscall = sc, !.args = args_]
        ELSE Bind(RetOf(ls[h + 3]), LAMBDA ret_ :
               Assemble(h, o, old, sc, args_, ret_))))

(***************************************************************************)
(* Input files.  A file is written from a sequence of blocks (a comment, a *)
(* blank line, or a three-line entry) and may be cut short at the end.     *)
(* Each block records what it is, so that the properties below are about   *)
(* the entries of the file and not about how the script reads them.        *)
(***************************************************************************)
MaxArgs   == 2
MaxRets   == 1
MaxBlocks == 2
MaxCut    == 2

SeqsUpTo(S, n) == UNION {[1..k -> S] : k \in 0..n}

RECURSIVE Join(_, _)
Join(parts0, sep) ==
    Bind(parts0, LAMBDA parts :
      IF Len(parts) = 0 THEN <<>>
      ELSE IF Len(parts) = 1 THEN parts[1]
      ELSE parts[1] \o sep \o Join(Tail(parts), sep))

\* a parameter token: "name: type attr", or the bare name when colon is FALSE
Tok(n, t, a, k, c) == [pname |-> n, ptype |-> t, attr |-> a, known |-> k, colon |-> c]

TokText(t) ==
    IF ~t.colon THEN t.pname
    ELSE t.pname \o <<":"," ">> \o t.ptype \o (IF t.attr = <<>> THEN <<>> ELSE <<" ">> \o t.attr)

ArgPool ==
    { Tok(<<"h","a","n","d","l","e">>, <<"z","x","_","h","a","n","d","l","e","_","t">>, <<>>, TRUE, TRUE),
      Tok(<<"o","u","t">>, <<"u","i","n","t","3","2","_","t">>, <<"I","N">>, TRUE, TRUE),
      Tok(<<"b","y","t","e","s">>, <<"a","n","y","[","n","]">>, <<"O","U","T">>, FALSE, TRUE),
      Tok(<<"j","u","n","k">>, <<>>, <<>>, FALSE, FALSE) }

ARetPool ==
    { Tok(<<"o","u","t">>, <<"z","x","_","h","a","n","d","l","e","_","t">>, <<>>, TRUE, TRUE),
      Tok(<<"a","c","t","u","a","l">>, <<"s","i","z","e","_","t">>, <<>>, TRUE, TRUE),
      Tok(<<"k","o","i","d">>, <<"z","x","_","k","o","i","d","_","t">>, <<>>, FALSE, TRUE),
      Tok(<<"u","i","n","t","6","4","_","t">>, <<>>, <<>>, FALSE, FALSE) }

\* primary return types: <<type, known>>
FRetPool == { <<<<"z","x","_","s","t","a","t","u","s","_","t">>, TRUE>>, <<<<"z","x","_","h","a","n","d","l","e","_","t">>, TRUE>>, <<<<"z","x","_","f","u","t","e","x","_","t">>, FALSE>> }

Entry(n, a, p, as, fr, ar) ==
    [kind |-> "entry", name |-> n, attr |-> a, policy |-> p,
     args |-> as, fret |-> fr[1], fknown |-> fr[2], aret |-> ar]

RichEntries ==
    { Entry(<<"c","l","o","c","k","_","g","e","t">>, <<>>, "none", as, fr, ar) :
        as \in SeqsUpTo(ArgPool, MaxArgs), fr \in FRetPool,
        ar \in SeqsUpTo(ARetPool, MaxRets) }

tHandle == Tok(<<"h","a","n","d","l","e">>, <<"z","x","_","h","a","n","d","l","e","_","t">>, <<>>, TRUE, TRUE)
tBytes  == Tok(<<"b","y","t","e","s">>, <<"a","n","y","[","n","]">>, <<"O","U","T">>, FALSE, TRUE)
tOut    == Tok(<<"o","u","t">>, <<"z","x","_","h","a","n","d","l","e","_","t">>, <<>>, TRUE, TRUE)
tSysId  == Tok(<<"s","y","s","c","a","l","l","_","i","d">>, <<"u","i","n","t","3","2","_","t">>, <<>>, TRUE, TRUE)

SimpleBlocks ==
    { [kind |-> "comment"], [kind |-> "blank"],
      Entry(<<"n","a","n","o","s","l","e","e","p">>, <<"b","l","o","c","k","i","n","g">>, "none", <<tHandle>>, <<<<"z","x","_","s","t","a","t","u","s","_","t">>, TRUE>>, <<tOut>>),
      Entry(<<"v","m","o","_","r","e","a","d">>, <<>>, "none", <<tBytes>>, <<<<"z","x","_","s","t","a","t","u","s","_","t">>, TRUE>>, <<>>),
      Entry(<<"f","u","t","e","x","_","w","a","i","t">>, <<>>, "none", <<>>, <<<<"z","x","_","f","u","t","e","x","_","t">>, FALSE>>, <<>>),
      Entry(<<"p","r","o","c","e","s","s","_","e","x","i","t">>, <<"n","o","r","e","t","u","r","n">>, "noreturn", <<tHandle>>, <<<<"z","x","_","s","t","a","t","u","s","_","t">>, TRUE>>, <<>>),
      Entry(<<"s","y","s","c","a","l","l","_","t","e","s","t","_","0">>, <<>>, "test", <<tSysId>>, <<<<"z","x","_","s","t","a","t","u","s","_","t">>, TRUE>>, <<>>) }

\* <<blocks, number of lines cut off the end>>: every one-entry file whole,
\* and the files of up to MaxBlocks simple blocks, whole or cut short
Inputs ==
    {<<(<<e>>), 0>> : e \in RichEntries} \cup
    (SeqsUpTo(SimpleBlocks, MaxBlocks) \X (0..MaxCut))

HeaderLine(e) ==
    <<"s","y","s","c","a","l","l"," ">> \o e.name \o (IF e.attr = <<>> THEN <<>> ELSE <<" ">> \o e.attr) \o <<"\n">>

ArgsLine(e) ==
    <<" "," "," "," ","(">> \o Join([k \in 1..Len(e.args) |-> TokText(e.args[k])], <<","," ">>) \o <<")","\n">>

RetLine(e) ==
    <<" "," "," "," ","r","e","t","u","r","n","s"," ","(">> \o
    Join(<<e.fret>> \o [k \in 1..Len(e.aret) |-> TokText(e.aret[k])], <<","," ">>) \o <<")",";","\n">>

BlockLines(b) ==
    IF b.kind = "comment" THEN << <<"#"," ","c","o","m","m","e","n","t","\n">> >>
    ELSE IF b.kind = "blank" THEN << <<"\n">> >>
    ELSE << HeaderLine(b), ArgsLine(b), RetLine(b) >>

RECURSIVE FileLines(_)
FileLines(f0) ==
    Bind(f0, LAMBDA f : IF Len(f) = 0 THEN <<>> ELSE BlockLines(f[1]) \o FileLines(Tail(f)))

(***************************************************************************)
(* State                                                                   *)
(***************************************************************************)
VARIABLES
    file,       \* the blocks syscalls.abigen was written from
    lines,      \* file.readlines ()
    i,          \* the scan cursor (0-based)
    out,        \* the arguments of the print calls so far
    status,     \* "running", "done" (loop left) or "error" (exception)
    syscall, args, ret, pargs, cargs, call, presult, cresult

vars == <<file, lines, i, out, status, syscall, args, ret, pargs, cargs, call,
          presult, cresult>>

locals == <<syscall, args, ret, pargs, cargs, call, presult, cresult>>

Init ==
    /\ \E in \in Inputs : \E all \in {FileLines(in[1])} :
         /\ in[2] <= Len(all)
         /\ file = in[1]
         /\ lines = SubSeq(all, 1, Len(all) - in[2])
    /\ i = 0
    /\ out = <<>>
    /\ status = "running"
    /\ syscall = <<>> /\ args = <<>> /\ ret = <<>>
    /\ pargs = <<>> /\ cargs = <<>> /\ call = <<>>
    /\ presult = <<>> /\ cresult = <<>>

(***************************************************************************)
(* The scan loop: one action per way through one iteration                 *)
(***************************************************************************)
Line == lines[i + 1]

Running == status = "running" /\ i < Len(lines)

IsComment == StartsWith(Line, <<"#">>)

\* find for startswith
IsSyscall_find == Find(Line, <<"s","y","s","c","a","l","l">>) # -1

IsSyscall == StartsWith(Line, <<"s","y","s","c","a","l","l">>)

\* startswith for find
IsNoreturn_prefix == StartsWith(Line, <<"n","o","r","e","t","u","r","n">>)

IsNoreturn == Find(Line, <<"n","o","r","e","t","u","r","n">>) # -1

IsTest == Find(Line, <<"t","e","s","t">>) # -1

Accepted   == ~IsComment /\ IsSyscall /\ ~IsNoreturn /\ ~IsTest

Step(j) == /\ i' = j
           /\ UNCHANGED <<file, lines, out, status, locals>>

SkipComment == Running /\ IsComment /\ Step(i + 1)

SkipNoreturn == Running /\ ~IsComment /\ IsSyscall /\ IsNoreturn /\ Step(i + 1)

SkipTest == Running /\ ~IsComment /\ IsSyscall /\ ~IsNoreturn /\ IsTest /\ Step(i + 1)

OtherLine == Running /\ ~IsComment /\ ~IsSyscall /\ Step(Advance(i))

Now ==
    [i |-> i, out |-> out, syscall |-> syscall, args |-> args, ret |-> ret,
     pargs |-> pargs, cargs |-> cargs, call |-> call, presult |-> presult,
     cresult |-> cresult, end |-> "none"]

Assign(r) ==
    /\ i' = r.i /\ out' = r.out /\ syscall' = r.syscall /\ args' = r.args
    /\ ret' = r.ret /\ pargs' = r.pargs /\ cargs' = r.cargs /\ call' = r.call
    /\ presult' = r.presult /\ cresult' = r.cresult

EmitEntry ==
    /\ Running /\ Accepted
    /\ \E r \in {Body(lines, i, out, Now)} : r.end = "emit" /\ Assign(r)
    /\ UNCHANGED <<file, lines, status>>

AbandonEntry ==
    /\ Running /\ Accepted
    /\ \E r \in {Body(lines, i, out, Now)} : r.end = "abandon" /\ Assign(r)
    /\ UNCHANGED <<file, lines, status>>

Raise ==
    /\ Running /\ Accepted
    /\ \E r \in {Body(lines, i, out, Now)} : r.end = "raise" /\ Assign(r)
    /\ status' = "error"
    /\ UNCHANGED <<file, lines>>

Finish ==
    /\ status = "running" /\ i >= Len(lines)
    /\ status' = "done"
    /\ UNCHANGED <<file, lines, i, out, locals>>

Next == \/ SkipComment \/ SkipNoreturn \/ SkipTest \/ OtherLine
        \/ EmitEntry \/ AbandonEntry \/ Raise \/ Finish

Spec == Init /\ [][Next]_vars

FairSpec == Spec /\ WF_vars(Next)

(***************************************************************************)
(* What the file holds, read off the blocks it was written from            *)
(***************************************************************************)
NLines(b) == IF b.kind = "entry" THEN 3 ELSE 1

\* the 0-based index of the first line of block b
RECURSIVE StartOf(_, _)
StartOf(f, b) == IF b = 1 THEN 0 ELSE StartOf(f, b - 1) + NLines(f[b - 1])

Blocks == DOMAIN file

IsEntry(b)    == file[b].kind = "entry"
IsAccepted(b) == IsEntry(b) /\ file[b].policy = "none"
IsSkipped(b)  == IsEntry(b) /\ file[b].policy # "none"

\* all the lines of block b are in the (possibly cut) file
Complete(b) == StartOf(file, b) + NLines(file[b]) <= Len(lines)

\* every parameter token of the entry has the form name: type
TokensOk(e) == /\ \A k \in DOMAIN e.args : e.args[k].colon
               /\ \A k \in DOMAIN e.aret : e.aret[k].colon

AllKnown(e) == /\ e.fknown
               /\ \A k \in DOMAIN e.args : e.args[k].known
               /\ \A k \in DOMAIN e.aret : e.aret[k].known

\* the file is structurally well formed: nothing cut, every token name: type
WellFormed == /\ \A b \in Blocks : Complete(b)
              /\ \A b \in Blocks : IsEntry(b) => TokensOk(file[b])

\* the scan is about to run an iteration on the header line of block b
AtHeader(b) == /\ status = "running" /\ IsEntry(b)
               /\ i = StartOf(file, b) /\ i < Len(lines)

Renamed(n) == IF n = <<"o","u","t">> THEN <<"r","e","s","u","l","t">> ELSE n

IsKnown(t) == t.known

\* the parameters that resolve: declared arguments, then additional returns
Resolved(e) == SelectSeq(e.args, IsKnown) \o SelectSeq(e.aret, IsKnown)
Unknown(ts) == SelectSeq(ts, LAMBDA t : ~t.known)

ResolvedNames(e) == [k \in DOMAIN Resolved(e) |-> Renamed(Resolved(e)[k].pname)]

(***************************************************************************)
(* Reading the generated text back                                         *)
(***************************************************************************)
\* the elements of a comma-joined list
Items(list) ==
    IF list = <<>> THEN <<>>
    ELSE Bind(SplitOn(list, {","}), LAMBDA ps : [k \in DOMAIN ps |-> Strip(ps[k])])

Word(s, k) == Bind(SplitOn(s, {" "}), LAMBDA w : IF k <= Len(w) THEN w[k] ELSE <<>>)
LastWord(s) == Bind(SplitOn(s, {" "}), LAMBDA w : w[Len(w)])

Names(list) == Bind(Items(list), LAMBDA it : [k \in DOMAIN it |-> LastWord(it[k])])
Marks(list) == Bind(Items(list), LAMBDA it : [k \in DOMAIN it |-> StartsWith(it[k], <<"o","u","t"," ">>)])

\* the prints of the step from output o to output o2
Printed(o, o2) == SubSeq(o2, Len(o) + 1, Len(o2))

IsImport(p)  == p = <<"[","D","l","l","I","m","p","o","r","t"," ","(","L","i","b","r","a","r","y",")","]">>
IsBinding(p) == StartsWith(p, <<"e","x","t","e","r","n"," ","s","t","a","t","i","c"," ">>)
IsWrapper(p) == StartsWith(p, <<"p","u","b","l","i","c"," ">>)
IsDiag(p)    == StartsWith(p, <<"/","/"," ","S","k","i","p","p","i","n","g"," ">>)
IsArgDiag(p) == IsDiag(p) /\ Find(p, <<" ","d","u","e"," ","t","o"," ","u","n","h","a","n","d","l","e","d"," ","t","y","p","e",":"," ">>) # -1
IsRetDiag(p) == IsDiag(p) /\ Find(p, <<" ","d","u","e"," ","t","o"," ","u","n","h","a","n","d","l","e","d"," ","r","e","t","u","r","n"," ">>) # -1

Count(ps, T(_)) == Cardinality({k \in DOMAIN ps : T(ps[k])})

\* exactly one binding declaration and one wrapper definition, both for name n
OnePair(ps, n) ==
    /\ Count(ps, IsImport) = 1 /\ Count(ps, IsBinding) = 1 /\ Count(ps, IsWrapper) = 1
    /\ \A k \in DOMAIN ps : IsBinding(ps[k]) => Word(ps[k], 4) = n
    /\ \A k \in DOMAIN ps : IsWrapper(ps[k]) => Word(ps[k], 4) = n

NoPair(ps) == Count(ps, IsImport) = 0 /\ Count(ps, IsBinding) = 0 /\ Count(ps, IsWrapper) = 0

(***************************************************************************)
(* C1.  For every accepted entry whose primary return type and whose       *)
(* argument and additional-return types are all in the mapping table, the  *)
(* iteration prints exactly one binding declaration and one wrapper        *)
(* definition for it, and the native, public and call-forwarding lists     *)
(* hold the same number of parameters, with the same names, in the same    *)
(* order (the order of the entry's parameters in the input).               *)
(***************************************************************************)
C1_Step(b) ==
    (AtHeader(b) /\ IsAccepted(b) /\ Complete(b) /\ AllKnown(file[b])) =>
        /\ OnePair(Printed(out, out'), file[b].name)
        /\ Count(Printed(out, out'), IsDiag) = 0
        /\ Names(pargs') = Names(cargs') /\ Names(cargs') = Names(call')
        /\ Names(call') = ResolvedNames(file[b])
        /\ Len(Items(pargs')) = Len(file[b].args) + Len(file[b].aret)

\* over the whole run: as many pairs as accepted entries with a known return
C1_Run ==
    (status = "done" /\ WellFormed) =>
        /\ Count(out, IsBinding) = Cardinality({b \in Blocks : IsAccepted(b) /\ file[b].fknown})
        /\ Count(out, IsWrapper) = Count(out, IsBinding)
        /\ Count(out, IsImport) = Count(out, IsBinding)

C1_EmitsOnePairWithAlignedLists == [](C1_Run) /\ [][\A b \in Blocks : C1_Step(b)]_vars

C1_Witness ==
    /\ status = "done" /\ Len(file) = 1 /\ IsAccepted(1) /\ AllKnown(file[1])
    /\ Len(file[1].args) = 2 /\ Len(file[1].aret) = 1
    /\ Len(out) = 8 /\ Len(Items(call)) = 3

(***************************************************************************)
(* C3.  For every accepted entry with a supported primary return type and  *)
(* at least one argument of unsupported type: no such argument is in the   *)
(* native, public or call-forwarding list; one diagnostic naming the entry *)
(* and the raw argument token is printed per such argument; and the        *)
(* supported arguments are in all three lists, in input order, in the      *)
(* binding/wrapper pair that is printed.                                   *)
(***************************************************************************)
C3_Step(b) ==
    (/\ AtHeader(b) /\ IsAccepted(b) /\ Complete(b) /\ TokensOk(file[b])
     /\ file[b].fknown /\ Unknown(file[b].args) # <<>>) =>
        LET ps  == Printed(out, out')
            bad == Unknown(file[b].args)
            ds  == SelectSeq(ps, IsArgDiag)
        IN  /\ Names(pargs') = ResolvedNames(file[b])
            /\ Names(cargs') = ResolvedNames(file[b])
            /\ Names(call') = ResolvedNames(file[b])
            /\ \A k \in DOMAIN bad : \A m \in 1..Len(Items(call')) :
                   bad[k].pname # Names(call')[m]
            /\ Len(ds) = Len(bad)
            /\ \A k \in DOMAIN bad :
                   /\ Word(ds[k], 3) = file[b].name
                   /\ Find(ds[k], TokText(bad[k])) # -1
            /\ OnePair(ps, file[b].name)
            /\ Find(ps[Len(ps) - 6], <<"(">> \o pargs' \o <<")">>) # -1
            /\ Find(ps[Len(ps) - 4], <<"(">> \o cargs' \o <<")">>) # -1
            /\ Find(ps[Len(ps) - 2], <<"(">> \o call' \o <<")">>) # -1

C3_UnsupportedArgumentDropped == [][\A b \in Blocks : C3_Step(b)]_vars

C3_Witness ==
    /\ status = "done" /\ Len(file) = 1 /\ IsAccepted(1) /\ file[1].fknown
    /\ Len(file[1].args) = 2 /\ ~file[1].args[1].known /\ file[1].args[2].known
    /\ Names(call) = <<file[1].args[2].pname>>
    /\ Count(out, IsArgDiag) = 1 /\ Count(out, IsBinding) = 1

(***************************************************************************)
(* C6.  In every printed entry, a parameter named "out" in the input is    *)
(* named "result" in the native, the public and the call-forwarding list,  *)
(* and the out marker is on exactly the parameters that come from          *)
(* additional return values, in all three lists, and on no declared        *)
(* argument.                                                               *)
(***************************************************************************)
C6_Step(b) ==
    (/\ AtHeader(b) /\ IsAccepted(b) /\ Complete(b) /\ TokensOk(file[b])
     /\ file[b].fknown) =>
        LET rs    == Resolved(file[b])
            nargs == Len(SelectSeq(file[b].args, IsKnown))
        IN  /\ Len(Items(pargs')) = Len(rs)
            /\ Len(Items(cargs')) = Len(rs)
            /\ Len(Items(call')) = Len(rs)
            /\ \A k \in DOMAIN rs :
                 /\ rs[k].pname = <<"o","u","t">> =>
                      /\ Names(pargs')[k] = <<"r","e","s","u","l","t">>
                      /\ Names(cargs')[k] = <<"r","e","s","u","l","t">>
                      /\ Names(call')[k] = <<"r","e","s","u","l","t">>
                 /\ Marks(pargs')[k] = (k > nargs)
                 /\ Marks(cargs')[k] = (k > nargs)
                 /\ Marks(call')[k] = (k > nargs)

C6_OutRenamedAndMarked == [][\A b \in Blocks : C6_Step(b)]_vars

C6_Witness ==
    /\ status = "done" /\ Len(file) = 1 /\ IsAccepted(1) /\ AllKnown(file[1])
    /\ Len(file[1].args) = 1 /\ file[1].args[1].pname = <<"o","u","t">>
    /\ Len(file[1].aret) = 1 /\ file[1].aret[1].pname = <<"o","u","t">>
    /\ call = <<"r","e","s","u","l","t",","," ","o","u","t"," ","r","e","s","u","l","t">>

(***************************************************************************)
(* C2.  For every accepted entry whose primary return type is not in the   *)
(* mapping table, no binding and no wrapper is printed for it and exactly  *)
(* one skip diagnostic is printed, whatever its arguments are.             *)
(***************************************************************************)
C2_Step(b) ==
    (/\ AtHeader(b) /\ IsAccepted(b) /\ Complete(b) /\ TokensOk(file[b])
     /\ ~file[b].fknown) =>
        /\ NoPair(Printed(out, out'))
        /\ Count(Printed(out, out'), IsDiag) = 1

C2_OneDiagnosticForUnsupportedReturn == [][\A b \in Blocks : C2_Step(b)]_vars

(***************************************************************************)
(* C4.  All or nothing: an entry is either printed as a binding/wrapper    *)
(* pair with every parameter type and the primary return type resolved, or *)
(* nothing is printed for it but one diagnostic per unresolved element; a  *)
(* pair is never printed for an entry with an unresolved type.             *)
(***************************************************************************)
\* the parameter types and the primary return type the table does not hold
Unresolved(e) == Len(Unknown(e.args)) + (IF e.fknown THEN 0 ELSE 1)

C4_Step(b) ==
    (AtHeader(b) /\ IsAccepted(b) /\ Complete(b) /\ TokensOk(file[b])) =>
        IF Unresolved(file[b]) = 0
        THEN OnePair(Printed(out, out'), file[b].name)
        ELSE /\ NoPair(Printed(out, out'))
             /\ Count(Printed(out, out'), IsDiag) = Unresolved(file[b])

C4_AllOrNothing == [][\A b \in Blocks : C4_Step(b)]_vars

(***************************************************************************)
(* C5.  For every entry whose header is marked noreturn or test, nothing   *)
(* is printed for it: not when its header is scanned, and not when its     *)
(* argument-list line and return-type line are scanned afterwards.         *)
(***************************************************************************)
C5_Step(b) ==
    (/\ status = "running" /\ IsSkipped(b) /\ i < Len(lines)
     /\ i \in StartOf(file, b)..(StartOf(file, b) + 2)) =>
        /\ out' = out
        /\ status' = "running"
        /\ i' = i + 1

\* no print names a skipped entry
C5_Never ==
    \A b \in Blocks : IsSkipped(b) =>
        \A k \in DOMAIN out : Find(out[k], file[b].name) = -1

C5_SkippedEntriesPrintNothing == [](C5_Never) /\ [][\A b \in Blocks : C5_Step(b)]_vars

C5_Witness ==
    /\ status = "done" /\ Len(file) = 2 /\ WellFormed
    /\ IsSkipped(1) /\ file[1].policy = "test"
    /\ IsSkipped(2) /\ file[2].policy = "noreturn"
    /\ i = 6 /\ out = <<>>

(***************************************************************************)
(* C7.  For every printed entry, the binding declaration is the native     *)
(* return type, the name and the native parameter list; the wrapper is the *)
(* public return type, the name and the public parameter list, and its     *)
(* body forwards every element of the call-forwarding list to the binding  *)
(* of the same name and returns the binding's result.                      *)
(***************************************************************************)
C7_Step(b) ==
    (/\ AtHeader(b) /\ IsAccepted(b) /\ Complete(b) /\ TokensOk(file[b])
     /\ file[b].fknown) =>
        LET ps == Printed(out, out')
            n  == file[b].name
            binding == ps[Len(ps) - 6]
            wrapper == ps[Len(ps) - 4]
            body    == ps[Len(ps) - 2]
        IN  /\ binding = <<"e","x","t","e","r","n"," ","s","t","a","t","i","c"," ">> \o maps[file[b].fret][1] \o <<" ">> \o n
                         \o <<" ","(">> \o pargs' \o <<")",";">>
            /\ Find(wrapper, maps[file[b].fret][2] \o <<" ">> \o n \o <<" ","(">> \o cargs' \o <<")">>) # -1
            /\ Find(body, n \o <<"(">> \o call' \o <<")">>) # -1
            /\ Find(body, <<"r","e","t","u","r","n">>) # -1

C7_WrapperReturnsBindingResult == [][\A b \in Blocks : C7_Step(b)]_vars

(***************************************************************************)
(* C8.  The scan terminates on every input: the cursor grows in every      *)
(* iteration, and the run ends with the cursor past the last line, or with *)
(* a fatal error.  C8_Original: the only fatal error is an accepted header *)
(* with fewer than two lines after it.  C8_Amended: a parameter token      *)
(* without exactly one colon is fatal too.                                 *)
(***************************************************************************)
CutShort(b) == AtHeader(b) /\ IsAccepted(b) /\ ~Complete(b)

BadToken(b) ==
    /\ AtHeader(b) /\ IsAccepted(b) /\ Complete(b)
    /\ \/ \E k \in DOMAIN file[b].args : ~file[b].args[k].colon
       \/ /\ file[b].fknown
          /\ \E k \in DOMAIN file[b].aret : ~file[b].aret[k].colon

C8_Progress ==
    /\ (status = "running" /\ status' = "running") => i' > i
    /\ status' = "done" => i' >= Len(lines)
    /\ (\E b \in Blocks : AtHeader(b) /\ IsSkipped(b)) => status' = "running"

C8_Original ==
    [][C8_Progress /\ (status' = "error" <=> \E b \in Blocks : CutShort(b))]_vars

C8_Amended ==
    /\ [][C8_Progress /\
          (status' = "error" <=> \E b \in Blocks : CutShort(b) \/ BadToken(b))]_vars
    /\ <>(status # "running")

C8_Witness ==
    /\ status = "error" /\ \A b \in Blocks : Complete(b)
    /\ Len(file) = 1 /\ ~TokensOk(file[1])

(***************************************************************************)
(* C9.  In a structurally well-formed input every accepted entry consumes  *)
(* its three lines, printed or abandoned, and the scan resumes at the line *)
(* after its return-type line; each entry is processed once, a skip does   *)
(* not halt the run, and the output of different entries is in the order   *)
(* of the entries in the input.                                            *)
(***************************************************************************)
C9_Step(b) ==
    (WellFormed /\ AtHeader(b) /\ IsAccepted(b)) =>
        /\ i' = StartOf(file, b) + 3
        /\ status' = "running"

\* the name a print carries
NameIn(p) == IF IsDiag(p) THEN Word(p, 3) ELSE Word(p, 4)

IsNamed(p) == IsDiag(p) \/ IsBinding(p) \/ IsWrapper(p)

\* the print that ends an entry: its binding, or its unhandled-return diagnostic
IsLast(p)  == IsBinding(p) \/ IsRetDiag(p)

RECURSIVE Collapse(_)
Collapse(s0) ==
    Bind(s0, LAMBDA s :
      IF Len(s) <= 1 THEN s
      ELSE IF s[1] = s[2] THEN Collapse(Tail(s))
      ELSE <<s[1]>> \o Collapse(Tail(s)))

AcceptedNames ==
    Bind(SelectSeq([b \in Blocks |-> b], IsAccepted), LAMBDA bs :
      [k \in DOMAIN bs |-> file[bs[k]].name])

PrintedNames(T(_)) ==
    Bind(SelectSeq(out, T), LAMBDA ps : [k \in DOMAIN ps |-> NameIn(ps[k])])

C9_Run ==
    WellFormed =>
        /\ status # "error"
        /\ status = "done" =>
             /\ i = Len(lines)
             /\ PrintedNames(IsLast) = AcceptedNames
             /\ Collapse(PrintedNames(IsNamed)) = Collapse(AcceptedNames)

C9_EntriesInOrder == [](C9_Run) /\ [][\A b \in Blocks : C9_Step(b)]_vars

C9_Witness ==
    /\ status = "done" /\ WellFormed /\ Len(file) = 2
    /\ IsAccepted(1) /\ ~file[1].fknown
    /\ IsAccepted(2) /\ file[2].fknown /\ file[2].name # file[1].name
    /\ PrintedNames(IsLast) = <<file[1].name, file[2].name>>

(***************************************************************************)
(* C10.  On a well-formed input the scan, which consumes only the header   *)
(* line of a noreturn/test entry and scans its next two lines again,       *)
(* prints what a scan that consumes all three lines of such an entry       *)
(* prints.                                                                 *)
(***************************************************************************)
Fresh ==
    [i |-> 0, out |-> <<>>, syscall |-> <<>>, args |-> <<>>, ret |-> <<>>,
     pargs |-> <<>>, cargs |-> <<>>, call |-> <<>>, presult |-> <<>>,
     cresult |-> <<>>, end |-> "none"]

\* the output of the scan that skips a noreturn/test entry as a whole
RECURSIVE ScanB(_, _, _)
ScanB(ls, k, o0) ==
    Bind(o0, LAMBDA o :
      IF k >= Len(ls) THEN o
      ELSE IF StartsWith(ls[k + 1], <<"#">>) THEN ScanB(ls, k + 1, o)
      ELSE IF ~StartsWith(ls[k + 1], <<"s","y","s","c","a","l","l">>) THEN ScanB(ls, k + 1, o)
      ELSE IF Find(ls[k + 1], <<"n","o","r","e","t","u","r","n">>) # -1 \/ Find(ls[k + 1], <<"t","e","s","t">>) # -1
      THEN ScanB(ls, k + 3, o)
      ELSE Bind(Body(ls, k, o, Fresh), LAMBDA r :
             IF r.end = "raise" THEN r.out ELSE ScanB(ls, r.i, r.out)))

C10_SameOutputAsWholeEntrySkip ==
    (WellFormed /\ status # "running") =>
        /\ status = "done"
        /\ out = ScanB(lines, 0, <<>>)

C10_Witness ==
    /\ status = "done" /\ WellFormed /\ Len(file) = 2
    /\ IsSkipped(1) /\ file[1].policy = "test"
    /\ IsAccepted(2) /\ file[2].fknown
    /\ Count(out, IsBinding) = 1

=============================================================================
